---------------------------- MODULE Spec2Model ----------------------------
(***************************************************************************)
(* A model of src/open_clip/loss.py: the feature gather (gather_features),  *)
(* the label cache (ClipLoss.get_ground_truth), the logit construction      *)
(* (ClipLoss.get_logits) and the forward passes of ClipLoss, CoCaLoss and   *)
(* DistillClipLoss.                                                         *)
(*                                                                         *)
(* One Python process (one ClipLoss object, of rank self.rank) is modelled  *)
(* in the specifications Spec and SpecLabels; the tensors its peers         *)
(* contribute to a collective are inputs.  SpecProto models world_size      *)
(* processes that run forward concurrently and meet in the collectives.     *)
(***************************************************************************)
EXTENDS Integers, Sequences, FiniteSets, TLC

VARIABLES
    has_distributed,  \* module global: torch.distributed imported
    hvd,              \* module global: "module" or "None"
    self,             \* the ClipLoss object
    ncalls,           \* calls made so far (also numbers the tensors allocated)
    ret,              \* the last get_ground_truth call and what it returned
    prev,             \* the call before it
    frame,            \* the last forward call: its arguments, locals and outcome
    batch,            \* the local batch size of the run, the same on every worker
    coca,             \* the attributes CoCaLoss.__init__ adds to the object
    job,              \* SpecProto: the forward every worker runs: "clip", "coca" or "distill"
    pc,               \* SpecProto: each worker's position in forward
    coll              \* SpecProto: the collectives each worker has entered

vars == <<has_distributed, hvd, self, ncalls, ret, prev, frame, batch, coca, job, pc, coll>>

(***************************************************************************)
(* Bounds of the model.                                                     *)
(***************************************************************************)
MaxWorld == 2     \* world_size ranges over 1..MaxWorld
MaxBatch == 2     \* the local batch size ranges over 0..MaxBatch
MaxDim == 2       \* the embedding dimension of the input features
MaxLogits == 2    \* num_logits of a direct get_ground_truth call: 0..MaxLogits
MaxCalls == 3     \* calls of get_ground_truth in SpecLabels
MaxSteps == 2     \* forward calls in Spec

Devices == {"cpu", "cuda:0"}
None == "None"
NoGrad == -1      \* a row no gradient flows back from

Ranks(world_size) == 0 .. (world_size - 1)

(***************************************************************************)
(* float32 arithmetic on non-negative integer values: an integer below     *)
(* 2^24 is a float32; above, the result of an operation is rounded to the   *)
(* nearest float32, ties to the even mantissa.                              *)
(***************************************************************************)
TwoP24 == 2^24

RECURSIVE Ulp(_)
Ulp(x) == IF x < TwoP24 THEN 1 ELSE 2 * Ulp(x \div 2)

fl32(x) ==
    LET q  == Ulp(x)
        m  == x \div q
        lo == m * q
        r  == x - lo
    IN  IF 2 * r < q THEN lo
        ELSE IF 2 * r > q THEN lo + q
        ELSE IF m % 2 = 0 THEN lo ELSE lo + q

(***************************************************************************)
(* torch.arange(num_logits): 0, 1, ..., num_logits - 1.                     *)
(***************************************************************************)
arange(n) == [i \in 1..n |-> i - 1]

(***************************************************************************)
(* ClipLoss.__init__: the object after construction.                        *)
(***************************************************************************)
ClipLoss(local_loss, gather_with_grad, cache_labels, rank, world_size, use_horovod) ==
    [ local_loss       |-> local_loss,
      gather_with_grad |-> gather_with_grad,
      cache_labels     |-> cache_labels,
      rank             |-> rank,
      world_size       |-> world_size,
      use_horovod      |-> use_horovod,
      prev_num_logits  |-> 0,
      labels           |-> << >> ]      \* the empty dict: no device has labels

(***************************************************************************)
(* ClipLoss.get_ground_truth(device, num_logits).  id is the identity of    *)
(* the tensor torch.arange would allocate.  The result is the returned      *)
(* tensor, whether it was computed by this call, and the object afterwards. *)
(***************************************************************************)
get_ground_truth_uncond_offset(slf, device, num_logits, id) ==
    IF slf.prev_num_logits # num_logits \/ device \notin DOMAIN slf.labels
    THEN LET labels == [ id     |-> id,
                         device |-> device,
                         data   |-> IF slf.world_size > 1
                                    THEN [i \in 1..num_logits |->
                                             arange(num_logits)[i] + num_logits * slf.rank]
                                    ELSE arange(num_logits) ]
         IN  [ labels   |-> labels,
               computed |-> TRUE,
               self     |-> IF slf.cache_labels
                            THEN [slf EXCEPT
                                    !.labels = [d \in (DOMAIN slf.labels) \cup {device} |->
                                                   IF d = device THEN labels ELSE slf.labels[d]],
                                    !.prev_num_logits = num_logits]
                            ELSE slf ]
    ELSE [ labels |-> slf.labels[device], computed |-> FALSE, self |-> slf ]

get_ground_truth_always_fresh(slf, device, num_logits, id) ==
    LET labels == [ id     |-> id,
                    device |-> device,
                    data   |-> IF slf.world_size > 1 /\ slf.local_loss
                               THEN [i \in 1..num_logits |->
                                        arange(num_logits)[i] + num_logits * slf.rank]
                               ELSE arange(num_logits) ]
    IN  [ labels   |-> labels,
          computed |-> TRUE,
          self     |-> IF slf.cache_labels
                       THEN [slf EXCEPT
                               !.labels = [d \in (DOMAIN slf.labels) \cup {device} |->
                                              IF d = device THEN labels ELSE slf.labels[d]],
                               !.prev_num_logits = num_logits]
                       ELSE slf ]

get_ground_truth_no_offset(slf, device, num_logits, id) ==
    IF slf.prev_num_logits # num_logits \/ device \notin DOMAIN slf.labels
    THEN LET labels == [ id |-> id, device |-> device, data |-> arange(num_logits) ]
         IN  [ labels   |-> labels,
               computed |-> TRUE,
               self     |-> IF slf.cache_labels
                            THEN [slf EXCEPT
                                    !.labels = [d \in (DOMAIN slf.labels) \cup {device} |->
                                                   IF d = device THEN labels ELSE slf.labels[d]],
                                    !.prev_num_logits = num_logits]
                            ELSE slf ]
    ELSE [ labels |-> slf.labels[device], computed |-> FALSE, self |-> slf ]

get_ground_truth(slf, device, num_logits, id) ==
    IF slf.prev_num_logits # num_logits \/ device \notin DOMAIN slf.labels
    THEN LET labels == [ id     |-> id,
                         device |-> device,
                         data   |-> IF slf.world_size > 1 /\ slf.local_loss
                                    THEN [i \in 1..num_logits |->
                                             arange(num_logits)[i] + num_logits * slf.rank]
                                    ELSE arange(num_logits) ]
         IN  [ labels   |-> labels,
               computed |-> TRUE,
               self     |-> IF slf.cache_labels
                            THEN [slf EXCEPT
                                    !.labels = [d \in (DOMAIN slf.labels) \cup {device} |->
                                                   IF d = device THEN labels ELSE slf.labels[d]],
                                    !.prev_num_logits = num_logits]
                            ELSE slf ]
    ELSE [ labels |-> slf.labels[device], computed |-> FALSE, self |-> slf ]

(***************************************************************************)
(* Tensors.  A feature tensor is the sequence of its rows; a row holds its  *)
(* values v and g, the rank of the worker whose local features a gradient   *)
(* flows back to through this row (NoGrad: none).  A logits matrix holds    *)
(* its shape and its values.                                                *)
(***************************************************************************)
RECURSIVE cat(_, _)
cat(tensors, n) ==          \* torch.cat(tensors[0..n-1], dim=0)
    IF n = 0 THEN << >> ELSE cat(tensors, n - 1) \o tensors[n - 1]

detach(t) == [i \in 1..Len(t) |-> [t[i] EXCEPT !.g = NoGrad]]

zeros_like(t) ==
    [i \in 1..Len(t) |-> [v |-> [k \in 1..Len(t[i].v) |-> 0], g |-> NoGrad]]

Min(a, b) == IF a < b THEN a ELSE b

(***************************************************************************)
(* Tensor.chunk(chunks, dim=0): pieces of ceil(n / chunks) rows, the last   *)
(* one shorter; an empty tensor gives `chunks` empty pieces.                *)
(***************************************************************************)
chunk(t, chunks) ==
    LET n          == Len(t)
        split_size == (n + chunks - 1) \div chunks
        num_splits == IF split_size = 0 THEN chunks
                      ELSE (n + split_size - 1) \div split_size
    IN  [c \in 0..(num_splits - 1) |->
            SubSeq(t, c * split_size + 1, Min((c + 1) * split_size, n))]

(***************************************************************************)
(* The collectives of the two runtimes.  peers holds what the workers of    *)
(* the world contribute; the caller contributes its own tensor.  The        *)
(* result is ordered by rank.                                               *)
(***************************************************************************)
Contributions(tensor, rank, peers) ==
    [r \in DOMAIN peers |-> IF r = rank THEN tensor ELSE peers[r]]

\* hvd.allgather(tensor): one tensor, the contributions concatenated; under
\* torch.no_grad() the result carries no gradient.
hvd_allgather(tensor, rank, peers, grad_enabled) ==
    LET w == Contributions(tensor, rank, peers)
    IN  cat([r \in DOMAIN w |-> IF grad_enabled THEN w[r] ELSE detach(w[r])],
            Cardinality(DOMAIN w))

\* torch.distributed.nn.all_gather(tensor): a tuple of tensors, differentiable.
nn_all_gather(tensor, rank, peers) == Contributions(tensor, rank, peers)

\* dist.all_gather(tensor_list, tensor): fills tensor_list, not differentiable.
dist_all_gather(tensor_list, tensor, rank, peers) ==
    LET w == Contributions(tensor, rank, peers)
    IN  [r \in DOMAIN tensor_list |-> detach(w[r])]

(***************************************************************************)
(* The collective calls gather_features issues, in order.                   *)
(***************************************************************************)
GatherCalls(gather_with_grad, use_horovod) ==
    LET prim == IF use_horovod THEN "hvd.allgather"
                ELSE IF gather_with_grad THEN "torch.distributed.nn.all_gather"
                ELSE "dist.all_gather"
    IN  << <<prim, "features_a">>, <<prim, "features_b">> >>

(***************************************************************************)
(* gather_features.  err is the exception raised (None: none), calls the    *)
(* collectives issued.                                                      *)
(***************************************************************************)
Raised(err) == [ err |-> err, calls |-> << >> ]

gather_features_splice_always(features_a, features_b, local_loss, gather_with_grad, rank, world_size, use_horovod, peers_a, peers_b) ==
    IF ~has_distributed THEN Raised("AssertionError: torch.distributed did not import correctly")
    ELSE IF use_horovod /\ hvd = None THEN Raised("AssertionError: Please install horovod")
    ELSE IF use_horovod THEN
        IF gather_with_grad
        THEN [ err |-> None,
               all_features_a |-> hvd_allgather(features_a, rank, peers_a, TRUE),
               all_features_b |-> hvd_allgather(features_b, rank, peers_b, TRUE),
               calls |-> GatherCalls(gather_with_grad, use_horovod) ]
        ELSE LET all_a == hvd_allgather(features_a, rank, peers_a, FALSE)
                 all_b == hvd_allgather(features_b, rank, peers_b, FALSE)
                 gathered_features_a == [chunk(all_a, world_size) EXCEPT ![rank] = features_a]
                 gathered_features_b == [chunk(all_b, world_size) EXCEPT ![rank] = features_b]
             IN  [ err |-> None,
                   all_features_a |-> cat(gathered_features_a, Cardinality(DOMAIN gathered_features_a)),
                   all_features_b |-> cat(gathered_features_b, Cardinality(DOMAIN gathered_features_b)),
                   calls |-> GatherCalls(gather_with_grad, use_horovod) ]
    ELSE
        IF gather_with_grad
        THEN [ err |-> None,
               all_features_a |-> cat(nn_all_gather(features_a, rank, peers_a), world_size),
               all_features_b |-> cat(nn_all_gather(features_b, rank, peers_b), world_size),
               calls |-> GatherCalls(gather_with_grad, use_horovod) ]
        ELSE LET zeros_a == [r \in Ranks(world_size) |-> zeros_like(features_a)]
                 zeros_b == [r \in Ranks(world_size) |-> zeros_like(features_b)]
                 filled_a == dist_all_gather(zeros_a, features_a, rank, peers_a)
                 filled_b == dist_all_gather(zeros_b, features_b, rank, peers_b)
                 gathered_features_a == [filled_a EXCEPT ![rank] = features_a]
                 gathered_features_b == [filled_b EXCEPT ![rank] = features_b]
             IN  [ err |-> None,
                   all_features_a |-> cat(gathered_features_a, world_size),
                   all_features_b |-> cat(gathered_features_b, world_size),
                   calls |-> GatherCalls(gather_with_grad, use_horovod) ]

gather_features_splice_first(features_a, features_b, local_loss, gather_with_grad, rank, world_size, use_horovod, peers_a, peers_b) ==
    IF ~has_distributed THEN Raised("AssertionError: torch.distributed did not import correctly")
    ELSE IF use_horovod /\ hvd = None THEN Raised("AssertionError: Please install horovod")
    ELSE IF use_horovod THEN
        IF gather_with_grad
        THEN [ err |-> None,
               all_features_a |-> hvd_allgather(features_a, rank, peers_a, TRUE),
               all_features_b |-> hvd_allgather(features_b, rank, peers_b, TRUE),
               calls |-> GatherCalls(gather_with_grad, use_horovod) ]
        ELSE LET all_a == hvd_allgather(features_a, rank, peers_a, FALSE)
                 all_b == hvd_allgather(features_b, rank, peers_b, FALSE)
                 gathered_features_a ==
                     IF local_loss THEN chunk(all_a, world_size)
                     ELSE [chunk(all_a, world_size) EXCEPT ![0] = features_a]
                 gathered_features_b ==
                     IF local_loss THEN chunk(all_b, world_size)
                     ELSE [chunk(all_b, world_size) EXCEPT ![0] = features_b]
             IN  [ err |-> None,
                   all_features_a |-> IF local_loss THEN all_a
                                      ELSE cat(gathered_features_a, Cardinality(DOMAIN gathered_features_a)),
                   all_features_b |-> IF local_loss THEN all_b
                                      ELSE cat(gathered_features_b, Cardinality(DOMAIN gathered_features_b)),
                   calls |-> GatherCalls(gather_with_grad, use_horovod) ]
    ELSE
        IF gather_with_grad
        THEN [ err |-> None,
               all_features_a |-> cat(nn_all_gather(features_a, rank, peers_a), world_size),
               all_features_b |-> cat(nn_all_gather(features_b, rank, peers_b), world_size),
               calls |-> GatherCalls(gather_with_grad, use_horovod) ]
        ELSE LET zeros_a == [r \in Ranks(world_size) |-> zeros_like(features_a)]
                 zeros_b == [r \in Ranks(world_size) |-> zeros_like(features_b)]
                 filled_a == dist_all_gather(zeros_a, features_a, rank, peers_a)
                 filled_b == dist_all_gather(zeros_b, features_b, rank, peers_b)
                 gathered_features_a ==
                     IF local_loss THEN filled_a ELSE [filled_a EXCEPT ![0] = features_a]
                 gathered_features_b ==
                     IF local_loss THEN filled_b ELSE [filled_b EXCEPT ![0] = features_b]
             IN  [ err |-> None,
                   all_features_a |-> cat(gathered_features_a, world_size),
                   all_features_b |-> cat(gathered_features_b, world_size),
                   calls |-> GatherCalls(gather_with_grad, use_horovod) ]

gather_features(features_a, features_b, local_loss, gather_with_grad, rank, world_size, use_horovod, peers_a, peers_b) ==
    IF ~has_distributed THEN Raised("AssertionError: torch.distributed did not import correctly")
    ELSE IF use_horovod /\ hvd = None THEN Raised("AssertionError: Please install horovod")
    ELSE IF use_horovod THEN
        IF gather_with_grad
        THEN [ err |-> None,
               all_features_a |-> hvd_allgather(features_a, rank, peers_a, TRUE),
               all_features_b |-> hvd_allgather(features_b, rank, peers_b, TRUE),
               calls |-> GatherCalls(gather_with_grad, use_horovod) ]
        ELSE LET all_a == hvd_allgather(features_a, rank, peers_a, FALSE)
                 all_b == hvd_allgather(features_b, rank, peers_b, FALSE)
                 gathered_features_a ==
                     IF local_loss THEN chunk(all_a, world_size)
                     ELSE [chunk(all_a, world_size) EXCEPT ![rank] = features_a]
                 gathered_features_b ==
                     IF local_loss THEN chunk(all_b, world_size)
                     ELSE [chunk(all_b, world_size) EXCEPT ![rank] = features_b]
             IN  [ err |-> None,
                   all_features_a |-> IF local_loss THEN all_a
                                      ELSE cat(gathered_features_a, Cardinality(DOMAIN gathered_features_a)),
                   all_features_b |-> IF local_loss THEN all_b
                                      ELSE cat(gathered_features_b, Cardinality(DOMAIN gathered_features_b)),
                   calls |-> GatherCalls(gather_with_grad, use_horovod) ]
    ELSE
        IF gather_with_grad
        THEN [ err |-> None,
               all_features_a |-> cat(nn_all_gather(features_a, rank, peers_a), world_size),
               all_features_b |-> cat(nn_all_gather(features_b, rank, peers_b), world_size),
               calls |-> GatherCalls(gather_with_grad, use_horovod) ]
        ELSE LET zeros_a == [r \in Ranks(world_size) |-> zeros_like(features_a)]
                 zeros_b == [r \in Ranks(world_size) |-> zeros_like(features_b)]
                 filled_a == dist_all_gather(zeros_a, features_a, rank, peers_a)
                 filled_b == dist_all_gather(zeros_b, features_b, rank, peers_b)
                 gathered_features_a ==
                     IF local_loss THEN filled_a ELSE [filled_a EXCEPT ![rank] = features_a]
                 gathered_features_b ==
                     IF local_loss THEN filled_b ELSE [filled_b EXCEPT ![rank] = features_b]
             IN  [ err |-> None,
                   all_features_a |-> cat(gathered_features_a, world_size),
                   all_features_b |-> cat(gathered_features_b, world_size),
                   calls |-> GatherCalls(gather_with_grad, use_horovod) ]

(***************************************************************************)
(* logit_scale * features: every value scaled, in float32.                  *)
(***************************************************************************)
scaled(logit_scale, t) ==
    [i \in 1..Len(t) |-> [k \in 1..Len(t[i].v) |-> fl32(logit_scale * t[i].v[k])]]

\* The dot product of two rows, accumulated in float32.
RECURSIVE dot(_, _, _)
dot(u, v, n) ==
    IF n = 0 THEN 0 ELSE fl32(dot(u, v, n - 1) + fl32(u[n] * v[n]))

\* x @ y.T for x the scaled rows and y a feature tensor.
matmul_T(x, y) ==
    [ shape |-> <<Len(x), Len(y)>>,
      v     |-> [i \in 1..Len(x) |-> [j \in 1..Len(y) |-> dot(x[i], y[j].v, Len(x[i]))]] ]

\* m.T
T(m) ==
    [ shape |-> <<m.shape[2], m.shape[1]>>,
      v     |-> [j \in 1..m.shape[2] |-> [i \in 1..m.shape[1] |-> m.v[i][j]]] ]

(***************************************************************************)
(* ClipLoss.get_logits.  Besides the two logits matrices the result names   *)
(* the tensors whose rows index the rows and the columns of logits_a, and   *)
(* the collectives issued.                                                  *)
(***************************************************************************)
get_logits_two_products(slf, features_a, features_b, logit_scale, peers_a, peers_b) ==
    IF slf.world_size > 1
    THEN LET g == gather_features(features_a, features_b, slf.local_loss, slf.gather_with_grad,
                                  slf.rank, slf.world_size, slf.use_horovod, peers_a, peers_b)
         IN  IF g.err # None THEN Raised(g.err)
             ELSE IF slf.local_loss
             THEN [ err |-> None, calls |-> g.calls,
                    rows |-> features_a, cols |-> g.all_features_b,
                    all_features_a |-> g.all_features_a, all_features_b |-> g.all_features_b,
                    logits_per_feature_a |-> matmul_T(scaled(logit_scale, features_a), g.all_features_b),
                    logits_per_feature_b |-> matmul_T(scaled(logit_scale, features_b), g.all_features_a) ]
             ELSE [ err |-> None, calls |-> g.calls,
                    rows |-> g.all_features_a, cols |-> g.all_features_b,
                    all_features_a |-> g.all_features_a, all_features_b |-> g.all_features_b,
                    logits_per_feature_a |-> matmul_T(scaled(logit_scale, g.all_features_a), g.all_features_b),
                    logits_per_feature_b |-> matmul_T(scaled(logit_scale, g.all_features_b), g.all_features_a) ]
    ELSE [ err |-> None, calls |-> << >>,
           rows |-> features_a, cols |-> features_b,
           all_features_a |-> features_a, all_features_b |-> features_b,
           logits_per_feature_a |-> matmul_T(scaled(logit_scale, features_a), features_b),
           logits_per_feature_b |-> matmul_T(scaled(logit_scale, features_b), features_a) ]

get_logits_fallback(slf, features_a, features_b, logit_scale, peers_a, peers_b) ==
    LET g == gather_features(features_a, features_b, slf.local_loss, slf.gather_with_grad,
                             slf.rank, slf.world_size, slf.use_horovod, peers_a, peers_b)
    IN  IF slf.world_size > 1 /\ g.err = None
        THEN IF slf.local_loss
             THEN [ err |-> None, calls |-> g.calls,
                    rows |-> features_a, cols |-> g.all_features_b,
                    all_features_a |-> g.all_features_a, all_features_b |-> g.all_features_b,
                    logits_per_feature_a |-> matmul_T(scaled(logit_scale, features_a), g.all_features_b),
                    logits_per_feature_b |-> matmul_T(scaled(logit_scale, features_b), g.all_features_a) ]
             ELSE LET logits_per_feature_a ==
                          matmul_T(scaled(logit_scale, g.all_features_a), g.all_features_b)
                  IN  [ err |-> None, calls |-> g.calls,
                        rows |-> g.all_features_a, cols |-> g.all_features_b,
                        all_features_a |-> g.all_features_a, all_features_b |-> g.all_features_b,
                        logits_per_feature_a |-> logits_per_feature_a,
                        logits_per_feature_b |-> T(logits_per_feature_a) ]
        ELSE [ err |-> None, calls |-> << >>,
               rows |-> features_a, cols |-> features_b,
               all_features_a |-> features_a, all_features_b |-> features_b,
               logits_per_feature_a |-> matmul_T(scaled(logit_scale, features_a), features_b),
               logits_per_feature_b |-> matmul_T(scaled(logit_scale, features_b), features_a) ]

get_logits_always_gather(slf, features_a, features_b, logit_scale, peers_a, peers_b) ==
    LET g == gather_features(features_a, features_b, slf.local_loss, slf.gather_with_grad,
                             slf.rank, slf.world_size, slf.use_horovod, peers_a, peers_b)
    IN  IF g.err # None THEN Raised(g.err)
        ELSE IF slf.local_loss
        THEN [ err |-> None, calls |-> g.calls,
               rows |-> features_a, cols |-> g.all_features_b,
               all_features_a |-> g.all_features_a, all_features_b |-> g.all_features_b,
               logits_per_feature_a |-> matmul_T(scaled(logit_scale, features_a), g.all_features_b),
               logits_per_feature_b |-> matmul_T(scaled(logit_scale, features_b), g.all_features_a) ]
        ELSE LET logits_per_feature_a ==
                     matmul_T(scaled(logit_scale, g.all_features_a), g.all_features_b)
             IN  [ err |-> None, calls |-> g.calls,
                   rows |-> g.all_features_a, cols |-> g.all_features_b,
                   all_features_a |-> g.all_features_a, all_features_b |-> g.all_features_b,
                   logits_per_feature_a |-> logits_per_feature_a,
                   logits_per_feature_b |-> T(logits_per_feature_a) ]

get_logits(slf, features_a, features_b, logit_scale, peers_a, peers_b) ==
    IF slf.world_size > 1
    THEN LET g == gather_features(features_a, features_b, slf.local_loss, slf.gather_with_grad,
                                  slf.rank, slf.world_size, slf.use_horovod, peers_a, peers_b)
         IN  IF g.err # None THEN Raised(g.err)
             ELSE IF slf.local_loss
             THEN [ err |-> None, calls |-> g.calls,
                    rows |-> features_a, cols |-> g.all_features_b,
                    all_features_a |-> g.all_features_a, all_features_b |-> g.all_features_b,
                    logits_per_feature_a |-> matmul_T(scaled(logit_scale, features_a), g.all_features_b),
                    logits_per_feature_b |-> matmul_T(scaled(logit_scale, features_b), g.all_features_a) ]
             ELSE LET logits_per_feature_a ==
                          matmul_T(scaled(logit_scale, g.all_features_a), g.all_features_b)
                  IN  [ err |-> None, calls |-> g.calls,
                        rows |-> g.all_features_a, cols |-> g.all_features_b,
                        all_features_a |-> g.all_features_a, all_features_b |-> g.all_features_b,
                        logits_per_feature_a |-> logits_per_feature_a,
                        logits_per_feature_b |-> T(logits_per_feature_a) ]
    ELSE [ err |-> None, calls |-> << >>,
           rows |-> features_a, cols |-> features_b,
           all_features_a |-> features_a, all_features_b |-> features_b,
           logits_per_feature_a |-> matmul_T(scaled(logit_scale, features_a), features_b),
           logits_per_feature_b |-> matmul_T(scaled(logit_scale, features_b), features_a) ]

(***************************************************************************)
(* F.cross_entropy(logits, labels) as far as its arguments decide it: it    *)
(* raises unless there is one label per row and every label is a column.    *)
(***************************************************************************)
cross_entropy(logits, labels) ==
    IF Len(labels.data) # logits.shape[1]
    THEN "ValueError: batch size mismatch"
    ELSE IF \E i \in 1..Len(labels.data) :
                labels.data[i] < 0 \/ labels.data[i] >= logits.shape[2]
    THEN "IndexError: target out of bounds"
    ELSE None

FirstError(errs) ==
    IF \E i \in 1..Len(errs) : errs[i] # None
    THEN errs[CHOOSE i \in 1..Len(errs) :
                 errs[i] # None /\ \A j \in 1..(i - 1) : errs[j] = None]
    ELSE None

(***************************************************************************)
(* ClipLoss.forward: device is features_a.device.  The result holds the     *)
(* locals of the call, the exception raised (None: none) and the object     *)
(* afterwards.                                                              *)
(***************************************************************************)
ClipLoss_forward(slf, features_a, features_b, logit_scale, device, peers_a, peers_b, id) ==
    LET total_loss(lg, gt) ==
            [ err    |-> FirstError(<<cross_entropy(lg.logits_per_feature_a, gt.labels),
                                      cross_entropy(lg.logits_per_feature_b, gt.labels)>>),
              calls  |-> lg.calls,
              logits |-> lg,
              labels |-> gt.labels,
              self   |-> gt.self ]
        with_logits(lg) ==
            IF lg.err # None
            THEN [ err |-> lg.err, calls |-> lg.calls, self |-> slf ]
            ELSE total_loss(lg, get_ground_truth(slf, device,
                                                 lg.logits_per_feature_a.shape[1], id))
    IN  with_logits(get_logits(slf, features_a, features_b, logit_scale, peers_a, peers_b))

(***************************************************************************)
(* nn.CrossEntropyLoss(ignore_index=pad_id) on logits.permute(0, 2, 1)      *)
(* (batch x vocab x sequence) and labels (batch x sequence), as far as the  *)
(* arguments decide it: it raises unless the shapes agree and every label   *)
(* other than pad_id is a class; the tokens equal to pad_id do not          *)
(* contribute to the mean.                                                  *)
(***************************************************************************)
permute_0_2_1(shape) == <<shape[1], shape[3], shape[2]>>

caption_loss(input_shape, target, ignore_index) ==
    IF Len(target) # input_shape[1]
    THEN [ err |-> "ValueError: batch size mismatch", tokens |-> {} ]
    ELSE IF \E n \in 1..Len(target) : Len(target[n]) # input_shape[3]
    THEN [ err |-> "RuntimeError: size mismatch", tokens |-> {} ]
    ELSE IF \E n \in 1..Len(target) : \E l \in 1..Len(target[n]) :
                /\ target[n][l] # ignore_index
                /\ (target[n][l] < 0 \/ target[n][l] >= input_shape[2])
    THEN [ err |-> "IndexError: target out of bounds", tokens |-> {} ]
    ELSE [ err    |-> None,
           tokens |-> { <<n, l>> \in (1..Len(target)) \X (1..input_shape[3]) :
                           target[n][l] # ignore_index } ]

(***************************************************************************)
(* CoCaLoss.forward: the inherited ClipLoss.forward, then the caption       *)
(* loss.  err is the exception of the inherited forward, raised the         *)
(* exception the call ends with; returns names the two weighted terms (the  *)
(* loss values are not computed), the caption term with the tokens that     *)
(* contribute to it, as a pair or, with output_dict, under their keys.      *)
(***************************************************************************)
CoCaLoss_forward(slf, attrs, image_features, text_features, logits_shape, labels, logit_scale, output_dict, device, peers_a, peers_b, id) ==
    LET weighted(clip, cap) ==
            LET clip_loss    == [ weight |-> attrs.clip_loss_weight, loss |-> "clip_loss" ]
                caption_term == [ weight |-> attrs.caption_loss_weight,
                                  loss |-> "caption_loss", tokens |-> cap.tokens ]
            IN  IF clip.err # None
                THEN clip @@ [ raised |-> clip.err ]
                ELSE IF cap.err # None
                THEN clip @@ [ raised |-> cap.err ]
                ELSE clip @@
                     [ raised  |-> None,
                       returns |-> IF output_dict
                                   THEN [ contrastive_loss |-> clip_loss,
                                          caption_loss     |-> caption_term ]
                                   ELSE <<clip_loss, caption_term>> ]
    IN  weighted(ClipLoss_forward(slf, image_features, text_features, logit_scale,
                                  device, peers_a, peers_b, id),
                 caption_loss(permute_0_2_1(logits_shape), labels, attrs.pad_id))

(***************************************************************************)
(* DistillClipLoss.forward: the student's logits, then the teacher's, then  *)
(* the labels.                                                              *)
(***************************************************************************)
DistillClipLoss_forward(slf, image_features, text_features, logit_scale, dist_image_features, dist_text_features, dist_logit_scale, device, peers, id) ==
    LET total_loss(lg, dlg, gt) ==
            [ err    |-> FirstError(<<cross_entropy(lg.logits_per_feature_a, gt.labels),
                                      cross_entropy(lg.logits_per_feature_b, gt.labels)>>),
              calls  |-> lg.calls \o dlg.calls,
              logits |-> lg,
              dist_logits |-> dlg,
              labels |-> gt.labels,
              self   |-> gt.self ]
        with_dist_logits(lg, dlg) ==
            IF dlg.err # None
            THEN [ err |-> dlg.err, calls |-> lg.calls \o dlg.calls, self |-> slf ]
            ELSE total_loss(lg, dlg, get_ground_truth(slf, device,
                                                      lg.logits_per_feature_a.shape[1], id))
        with_logits(lg) ==
            IF lg.err # None
            THEN [ err |-> lg.err, calls |-> lg.calls, self |-> slf ]
            ELSE with_dist_logits(lg, get_logits(slf, dist_image_features, dist_text_features,
                                                 dist_logit_scale, peers.dist_image,
                                                 peers.dist_text))
    IN  with_logits(get_logits(slf, image_features, text_features, logit_scale,
                               peers.image, peers.text))

(***************************************************************************)
(* The states after construction: every configuration of the object; the   *)
(* rank is one of the world's.                                              *)
(***************************************************************************)
NoCall == [ called |-> FALSE ]

Objects ==
    { ClipLoss(ll, gg, cl, rk, ws, hv) :
        ll \in BOOLEAN, gg \in BOOLEAN, cl \in BOOLEAN,
        rk \in Ranks(MaxWorld), ws \in 1..MaxWorld, hv \in BOOLEAN }

\* CoCaLoss.__init__: the two weights, and the pad id the caption loss ignores
\* (pad_id=0 by default).
CoCaArgs == { [ caption_loss_weight |-> 2, clip_loss_weight |-> 1, pad_id |-> 0 ] }

InitObject ==
    /\ self \in { o \in Objects : o.rank < o.world_size }
    /\ coca \in CoCaArgs
    /\ ncalls = 0
    /\ ret = NoCall
    /\ prev = NoCall
    /\ frame = NoCall

InitProtoIdle ==
    /\ job = None
    /\ pc = << >>
    /\ coll = << >>

(***************************************************************************)
(* SpecLabels: direct calls of get_ground_truth on one object.              *)
(***************************************************************************)
InitLabels ==
    /\ has_distributed = TRUE
    /\ hvd = None
    /\ InitObject
    /\ self.gather_with_grad = FALSE
    /\ self.use_horovod = FALSE
    /\ batch = 0
    /\ InitProtoIdle

GetGroundTruth(device, num_logits) ==
    /\ ncalls < MaxCalls
    /\ LET r == get_ground_truth(self, device, num_logits, ncalls + 1)
       IN  /\ self' = r.self
           /\ ret' = [ called     |-> TRUE,
                       device     |-> device,
                       num_logits |-> num_logits,
                       labels     |-> r.labels,
                       computed   |-> r.computed,
                       before     |-> self,
                       after      |-> r.self ]
    /\ prev' = ret
    /\ ncalls' = ncalls + 1
    /\ UNCHANGED <<has_distributed, hvd, frame, batch, coca, job, pc, coll>>

NextLabels == \E device \in Devices, num_logits \in 0..MaxLogits :
                  GetGroundTruth(device, num_logits)

SpecLabels == InitLabels /\ [][NextLabels]_vars

(***************************************************************************)
(* The inputs of a forward call: the features every worker of the world     *)
(* holds.  Row i of worker r is sample r * batch + i of the global batch;   *)
(* "index" has small values in Dim columns, "large" has values whose        *)
(* scaled products are rounded in float32.  The teacher of a distillation   *)
(* call holds the "index" features.                                         *)
(***************************************************************************)
Patterns == {"index", "large"}

\* The logit scale that goes with a pattern: 4097 makes the products of "large"
\* exceed 2^24.
LogitScale(p) == IF p = "index" THEN 2 ELSE 4097

Dim(p) == IF p = "index" THEN MaxDim ELSE 1

Value(p, t, idx, k) ==
    IF p = "index"
    THEN (IF t = "a" THEN idx + k - 1 ELSE 2 * idx + k)
    ELSE (IF t = "a" THEN 4095 + 2 * idx ELSE 4 * idx - 1)

Features(p, t, rank, B) ==
    [i \in 1..B |-> [ v |-> [k \in 1..Dim(p) |-> Value(p, t, rank * B + i, k)],
                      g |-> rank ]]

Peers(p, t, world_size, B) == [r \in Ranks(world_size) |-> Features(p, t, r, B)]

(***************************************************************************)
(* Spec: forward calls of one worker's loss object, in every configuration  *)
(* and environment.                                                         *)
(***************************************************************************)
Init ==
    /\ has_distributed \in BOOLEAN
    /\ hvd \in {None, "module"}
    /\ InitObject
    /\ batch \in 0..MaxBatch
    /\ InitProtoIdle

Forward(p, device) ==
    /\ ncalls < MaxSteps
    /\ LET logit_scale == LogitScale(p)
           features_a == Features(p, "a", self.rank, batch)
           features_b == Features(p, "b", self.rank, batch)
           peers_a    == Peers(p, "a", self.world_size, batch)
           peers_b    == Peers(p, "b", self.world_size, batch)
       IN  \E r \in {ClipLoss_forward(self, features_a, features_b, logit_scale, device,
                                 peers_a, peers_b, ncalls + 1)} :
           /\ self' = r.self
           /\ frame' = [ called      |-> TRUE,
                         kind        |-> "clip",
                         device      |-> device,
                         logit_scale |-> logit_scale,
                         features_a  |-> features_a,
                         features_b  |-> features_b,
                         peers_a     |-> peers_a,
                         peers_b     |-> peers_b,
                         before      |-> self,
                         out         |-> r ]
    /\ ncalls' = ncalls + 1
    /\ UNCHANGED <<has_distributed, hvd, ret, prev, batch, coca, job, pc, coll>>

DistillForward(p, tp, device) ==
    /\ ncalls < MaxSteps
    /\ LET logit_scale == LogitScale(p)
           dist_logit_scale == LogitScale(tp)
           features_a == Features(p, "a", self.rank, batch)
           features_b == Features(p, "b", self.rank, batch)
           peers == [ image      |-> Peers(p, "a", self.world_size, batch),
                      text       |-> Peers(p, "b", self.world_size, batch),
                      dist_image |-> Peers(tp, "a", self.world_size, batch),
                      dist_text  |-> Peers(tp, "b", self.world_size, batch) ]
       IN  \E r \in {DistillClipLoss_forward(self, features_a, features_b, logit_scale,
                                        Features(tp, "a", self.rank, batch),
                                        Features(tp, "b", self.rank, batch),
                                        dist_logit_scale, device, peers, ncalls + 1)} :
           /\ self' = r.self
           /\ frame' = [ called      |-> TRUE,
                         kind        |-> "distill",
                         device      |-> device,
                         logit_scale |-> logit_scale,
                         features_a  |-> features_a,
                         features_b  |-> features_b,
                         peers_a     |-> peers.image,
                         peers_b     |-> peers.text,
                         before      |-> self,
                         out         |-> r ]
    /\ ncalls' = ncalls + 1
    /\ UNCHANGED <<has_distributed, hvd, ret, prev, batch, coca, job, pc, coll>>

(***************************************************************************)
(* The caption inputs of CoCaLoss.forward: token logits of shape batch x    *)
(* sequence x vocabulary (two tokens, three classes) and one row of target  *)
(* tokens per sample: "padded" ends in the pad token, "bad" holds a token   *)
(* that is no class.  The features are those of the "index" pattern.        *)
(***************************************************************************)
Captions == {"padded", "bad"}

CaptionShape(B) == <<B, 2, 3>>

CaptionLabels(c, B) ==
    [n \in 1..B |-> IF c = "padded" THEN <<1, 0>> ELSE <<1, 3>>]

CoCaForward(c, output_dict, device) ==
    /\ ncalls < MaxSteps
    /\ LET logit_scale == LogitScale("index")
           features_a == Features("index", "a", self.rank, batch)
           features_b == Features("index", "b", self.rank, batch)
           peers_a    == Peers("index", "a", self.world_size, batch)
           peers_b    == Peers("index", "b", self.world_size, batch)
       IN  \E r \in {CoCaLoss_forward(self, coca, features_a, features_b,
                                      CaptionShape(batch), CaptionLabels(c, batch),
                                      logit_scale, output_dict, device, peers_a, peers_b,
                                      ncalls + 1)} :
           /\ self' = r.self
           /\ frame' = [ called      |-> TRUE,
                         kind        |-> "coca",
                         device      |-> device,
                         logit_scale |-> logit_scale,
                         features_a  |-> features_a,
                         features_b  |-> features_b,
                         labels      |-> CaptionLabels(c, batch),
                         peers_a     |-> peers_a,
                         peers_b     |-> peers_b,
                         before      |-> self,
                         out         |-> r ]
    /\ ncalls' = ncalls + 1
    /\ UNCHANGED <<has_distributed, hvd, ret, prev, batch, coca, job, pc, coll>>

Next ==
    \/ \E p \in Patterns, device \in Devices : Forward(p, device)
    \/ \E p \in Patterns, device \in Devices : DistillForward(p, "index", device)
    \/ \E c \in Captions, output_dict \in BOOLEAN, device \in Devices :
          CoCaForward(c, output_dict, device)

Spec == Init /\ [][Next]_vars

(***************************************************************************)
(* SpecProto: the world_size workers of one training step.  Every worker    *)
(* holds a loss object configured like self, with its own rank, and runs    *)
(* the same forward.  A collective is blocking: a worker that has entered   *)
(* its j-th collective leaves it once every worker has entered its j-th.    *)
(* A worker may hang or crash (Hang) before it enters a collective; a       *)
(* worker that has not hung keeps running.                                  *)
(***************************************************************************)
WorkerSelf(w) == [self EXCEPT !.rank = w]

\* The collectives forward issues, in order: those gather_features issues in
\* each get_logits call (none when world_size is 1); DistillClipLoss.forward
\* calls get_logits for the student, then for the teacher.
ForwardCalls_teacher_on_rank0(slf, kind) ==
    IF slf.world_size > 1
    THEN IF kind # "distill" \/ slf.rank # 0
         THEN GatherCalls(slf.gather_with_grad, slf.use_horovod)
         ELSE GatherCalls(slf.gather_with_grad, slf.use_horovod)
                  \o GatherCalls(slf.gather_with_grad, slf.use_horovod)
    ELSE << >>

ForwardCalls(slf, kind) ==
    IF slf.world_size > 1
    THEN IF kind # "distill"
         THEN GatherCalls(slf.gather_with_grad, slf.use_horovod)
         ELSE GatherCalls(slf.gather_with_grad, slf.use_horovod)
                  \o GatherCalls(slf.gather_with_grad, slf.use_horovod)
    ELSE << >>

Plan(w) == ForwardCalls(WorkerSelf(w), job)

Workers == Ranks(self.world_size)

\* The j-th collective is complete: every worker has entered it.
CollectiveComplete(j) == \A v \in Workers : Len(coll[v]) >= j

InitProto ==
    /\ has_distributed = TRUE
    /\ hvd = "module"
    /\ InitObject
    /\ self.rank = 0
    /\ self.cache_labels = FALSE
    /\ batch = 0
    /\ job \in {"clip", "coca", "distill"}
    /\ pc = [w \in Workers |-> "idle"]
    /\ coll = [w \in Workers |-> << >>]

Call(w) ==
    /\ w \in Workers /\ pc[w] = "idle"
    /\ pc' = [pc EXCEPT ![w] = "running"]
    /\ UNCHANGED <<has_distributed, hvd, self, ncalls, ret, prev, frame, batch, coca, job, coll>>

Enter(w) ==
    /\ w \in Workers /\ pc[w] = "running"
    /\ Len(coll[w]) < Len(Plan(w))
    /\ coll' = [coll EXCEPT ![w] = Append(@, Plan(w)[Len(@) + 1])]
    /\ pc' = [pc EXCEPT ![w] = "blocked"]
    /\ UNCHANGED <<has_distributed, hvd, self, ncalls, ret, prev, frame, batch, coca, job>>

Leave(w) ==
    /\ w \in Workers /\ pc[w] = "blocked"
    /\ CollectiveComplete(Len(coll[w]))
    /\ pc' = [pc EXCEPT ![w] = "running"]
    /\ UNCHANGED <<has_distributed, hvd, self, ncalls, ret, prev, frame, batch, coca, job, coll>>

Return(w) ==
    /\ w \in Workers /\ pc[w] = "running"
    /\ Len(coll[w]) = Len(Plan(w))
    /\ pc' = [pc EXCEPT ![w] = "returned"]
    /\ UNCHANGED <<has_distributed, hvd, self, ncalls, ret, prev, frame, batch, coca, job, coll>>

Hang(w) ==
    /\ w \in Workers /\ pc[w] \in {"idle", "running"}
    /\ pc' = [pc EXCEPT ![w] = "hung"]
    /\ UNCHANGED <<has_distributed, hvd, self, ncalls, ret, prev, frame, batch, coca, job, coll>>

Proceed(w) == Enter(w) \/ Leave(w) \/ Return(w)

NextProto == \E w \in Ranks(MaxWorld) : Call(w) \/ Proceed(w) \/ Hang(w)

SpecProto ==
    /\ InitProto
    /\ [][NextProto]_vars
    /\ \A w \in Ranks(MaxWorld) : WF_vars(Proceed(w))

(***************************************************************************)
(* C1: a freshly computed result of get_ground_truth(device, num_logits)    *)
(* is arange(num_logits) + rank * num_logits when local_loss is set and     *)
(* arange(num_logits) when it is not, for every rank of the world.          *)
(***************************************************************************)
C1_LabelCorrectness ==
    (ret.called /\ ret.computed) =>
        ret.labels.data =
            IF self.local_loss
            THEN [i \in 1..ret.num_logits |-> (i - 1) + self.rank * ret.num_logits]
            ELSE [i \in 1..ret.num_logits |-> i - 1]

C1_Witness ==
    /\ ret.called /\ ret.computed
    /\ self.local_loss /\ self.rank >= 1 /\ ret.num_logits >= 2

(***************************************************************************)
(* C2: with cache_labels set, get_ground_truth(device, n) never returns     *)
(* labels computed for another num_logits: what it returns has length n.    *)
(***************************************************************************)
C2_NoStaleLabels ==
    (ret.called /\ self.cache_labels) => Len(ret.labels.data) = ret.num_logits

(***************************************************************************)
(* C3: with cache_labels set, the second of two consecutive calls with the  *)
(* same (device, num_logits) returns the very tensor the first returned     *)
(* (the same identity, not a recomputed copy) and leaves the cache state    *)
(* (labels, prev_num_logits) as it was.                                     *)
(***************************************************************************)
SameArgsTwice ==
    /\ self.cache_labels
    /\ prev.called /\ ret.called
    /\ prev.device = ret.device
    /\ prev.num_logits = ret.num_logits

C3_CachedIdentity ==
    SameArgsTwice =>
        /\ ret.labels = prev.labels
        /\ ret.labels.id = prev.labels.id
        /\ ~ret.computed
        /\ ret.after.labels = ret.before.labels
        /\ ret.after.prev_num_logits = ret.before.prev_num_logits

C3_Witness == SameArgsTwice /\ prev.computed /\ ret.num_logits >= 2

(***************************************************************************)
(* What a completed forward call gathered, and what the world held.         *)
(***************************************************************************)
Completed == frame.called /\ frame.out.err = None
Gathered  == Completed /\ self.world_size > 1

Values(t) == [i \in 1..Len(t) |-> t[i].v]
Grads(t)  == [i \in 1..Len(t) |-> t[i].g]

\* Row-block r (0-based) of a gathered tensor: rows r * batch + 1 .. (r + 1) * batch.
Block(t, r) == SubSeq(t, r * batch + 1, (r + 1) * batch)

(***************************************************************************)
(* C4: whatever the backend, gather_with_grad and local_loss, the gathered  *)
(* tensors are the rank-ordered concatenation of the workers' local         *)
(* batches: row-block r holds worker r's local features_a (features_b).     *)
(***************************************************************************)
C4_RankBlocks ==
    Gathered =>
        /\ Len(frame.out.logits.all_features_a) = self.world_size * batch
        /\ Len(frame.out.logits.all_features_b) = self.world_size * batch
        /\ \A r \in Ranks(self.world_size) :
              /\ Values(Block(frame.out.logits.all_features_a, r)) = Values(frame.peers_a[r])
              /\ Values(Block(frame.out.logits.all_features_b, r)) = Values(frame.peers_b[r])

C4_Witness ==
    /\ Gathered /\ batch >= 2 /\ self.rank >= 1
    /\ ~self.gather_with_grad /\ ~self.local_loss /\ self.use_horovod

(***************************************************************************)
(* C5 as stated: with local_loss unset, logits_per_feature_b is exactly     *)
(* the transpose of logits_per_feature_a, for every world_size.             *)
(***************************************************************************)
C5_TransposeAllWorlds ==
    (Completed /\ ~self.local_loss) =>
        frame.out.logits.logits_per_feature_b = T(frame.out.logits.logits_per_feature_a)

(***************************************************************************)
(* C5 amended: with local_loss unset and world_size > 1,                    *)
(* logits_per_feature_b is exactly the transpose of logits_per_feature_a;   *)
(* with world_size = 1 it is a product of its own, logit_scale * features_b *)
(* @ features_a.T, and is the transpose where no scaled value and no        *)
(* product of the two computations is rounded.                              *)
(***************************************************************************)
Exact(logit_scale, x, y) ==
    \A i \in 1..Len(x), j \in 1..Len(y) : \A k \in 1..Len(x[i].v) :
        /\ logit_scale * x[i].v[k] < TwoP24
        /\ logit_scale * x[i].v[k] * y[j].v[k] * Len(x[i].v) < TwoP24

C5_Transpose ==
    (Completed /\ ~self.local_loss) =>
        /\ self.world_size > 1 =>
              frame.out.logits.logits_per_feature_b = T(frame.out.logits.logits_per_feature_a)
        /\ (/\ self.world_size = 1
            /\ Exact(frame.logit_scale, frame.features_a, frame.features_b)
            /\ Exact(frame.logit_scale, frame.features_b, frame.features_a)) =>
              frame.out.logits.logits_per_feature_b = T(frame.out.logits.logits_per_feature_a)

\* A gathered global matrix whose entries are rounded: there a second product
\* would differ from the transpose.
C5_Witness ==
    /\ Gathered /\ ~self.local_loss /\ batch >= 1
    /\ frame.out.logits.logits_per_feature_a.v[1][1] > TwoP24
    /\ frame.out.logits.logits_per_feature_b = T(frame.out.logits.logits_per_feature_a)

(***************************************************************************)
(* C6: with world_size = 1 get_logits returns logit_scale * features_a @    *)
(* features_b.T and logit_scale * features_b @ features_a.T of the local    *)
(* inputs, whatever local_loss, gather_with_grad and use_horovod are, and   *)
(* issues no collective: it succeeds without any distributed runtime.       *)
(***************************************************************************)
C6_SingleWorker ==
    (frame.called /\ self.world_size = 1) =>
        /\ frame.out.err = None
        /\ frame.out.calls = << >>
        /\ frame.out.logits.logits_per_feature_a =
               matmul_T(scaled(frame.logit_scale, frame.features_a), frame.features_b)
        /\ frame.out.logits.logits_per_feature_b =
               matmul_T(scaled(frame.logit_scale, frame.features_b), frame.features_a)
        /\ frame.out.logits.logits_per_feature_a.shape = <<batch, batch>>

C6_Witness ==
    /\ frame.called /\ self.world_size = 1 /\ frame.out.err = None
    /\ ~has_distributed /\ hvd = None /\ self.use_horovod /\ self.local_loss
    /\ batch >= 2

(***************************************************************************)
(* C7: with world_size > 1 the call ends in the assertion error, having     *)
(* issued no collective and produced no logits, when torch.distributed is   *)
(* missing, and when horovod is asked for and missing; the label cache is   *)
(* as it was.                                                               *)
(***************************************************************************)
Misconfigured ==
    self.world_size > 1 /\ (~has_distributed \/ (self.use_horovod /\ hvd = None))

C7_FailFast ==
    (frame.called /\ Misconfigured) =>
        /\ frame.out.err # None
        /\ frame.out.calls = << >>
        /\ "logits" \notin DOMAIN frame.out
        /\ "labels" \notin DOMAIN frame.out
        /\ self = frame.before
        /\ self.labels = frame.before.labels
        /\ self.prev_num_logits = frame.before.prev_num_logits

C7_Witness ==
    /\ frame.called /\ Misconfigured /\ has_distributed /\ batch >= 1
    /\ frame.out.err = "AssertionError: Please install horovod"

(***************************************************************************)
(* C8: with gather_with_grad unset, on both backends: if local_loss is      *)
(* unset, the block at the caller's rank is the caller's own tensor, which  *)
(* carries gradient, and no other block does; if local_loss is set, no      *)
(* block carries gradient.  With gather_with_grad set every block does.     *)
(***************************************************************************)
BlockGrads(t, r) == { Grads(t)[i] : i \in (r * batch + 1) .. ((r + 1) * batch) }

GradShape(t) ==
    \A r \in Ranks(self.world_size) :
        BlockGrads(t, r) =
            IF self.gather_with_grad THEN {r}
            ELSE IF ~self.local_loss /\ r = self.rank THEN {self.rank}
            ELSE {NoGrad}

C8_GradientPath ==
    (Gathered /\ batch >= 1) =>
        /\ GradShape(frame.out.logits.all_features_a)
        /\ GradShape(frame.out.logits.all_features_b)
        /\ (~self.gather_with_grad /\ ~self.local_loss) =>
              /\ Block(frame.out.logits.all_features_a, self.rank) = frame.features_a
              /\ Block(frame.out.logits.all_features_b, self.rank) = frame.features_b

C8_Witness ==
    /\ Gathered /\ batch >= 2
    /\ ~self.gather_with_grad /\ self.local_loss /\ ~self.use_horovod

(***************************************************************************)
(* C10: in both forward passes the labels given to cross_entropy fit the    *)
(* logits: one label per row, every label a column, and label i the column *)
(* of the sample paired with row i (column rank * batch + i with            *)
(* local_loss and world_size > 1, column i otherwise).                      *)
(***************************************************************************)
WorldA == cat(frame.peers_a, self.world_size)
WorldB == cat(frame.peers_b, self.world_size)

\* The place in the global batch (1-based) of the sample of row i.
Sample(i) == IF self.world_size > 1 /\ self.local_loss THEN self.rank * batch + i ELSE i

C10_LabelsFitLogits ==
    frame.called =>
        /\ (self.world_size = 1 \/ ~Misconfigured) => frame.out.err = None
        /\ Completed =>
            LET la     == frame.out.logits.logits_per_feature_a
                lb     == frame.out.logits.logits_per_feature_b
                labels == frame.out.labels.data
            IN  /\ Len(labels) = la.shape[1]
                /\ Len(labels) = lb.shape[1]
                /\ la.shape[2] = lb.shape[2]
                /\ \A i \in 1..Len(labels) :
                      /\ 0 <= labels[i] /\ labels[i] < la.shape[2]
                      /\ labels[i] = Sample(i) - 1
                      /\ frame.out.logits.rows[i].v = WorldA[Sample(i)].v
                      /\ frame.out.logits.cols[labels[i] + 1].v = WorldB[Sample(i)].v

\* A second call on a device whose labels are cached, in local-loss mode.
C10_Witness ==
    /\ Completed /\ frame.kind = "distill" /\ ncalls >= 2
    /\ self.world_size > 1 /\ self.local_loss /\ self.rank >= 1 /\ batch >= 2
    /\ self.cache_labels /\ frame.out.labels.id < ncalls

(***************************************************************************)
(* C9: identically configured workers issue the same sequence of blocking   *)
(* collectives, so the j-th collective of one worker meets the j-th of      *)
(* every other; a worker's forward returns only after every worker has      *)
(* entered every collective of the step (a worker that never enters one     *)
(* stalls all the others); and once all workers have called forward, all    *)
(* forwards return unless a worker hangs.                                   *)
(***************************************************************************)
Matched ==
    \A v \in Workers, w \in Workers :
        \A j \in 1..Min(Len(coll[v]), Len(coll[w])) : coll[v][j] = coll[w][j]

ReturnNeedsAll ==
    \A w \in Workers :
        pc[w] = "returned" => \A v \in Workers : Len(coll[v]) = Len(Plan(w))

AllCalled   == \A w \in Workers : pc[w] # "idle"
AllReturned == \A w \in Workers : pc[w] = "returned"
AnyHung     == \E w \in Workers : pc[w] = "hung"

\* In Spec: a forward call that raises nothing issues exactly ForwardCalls.
CallsAgree == Completed => frame.out.calls = ForwardCalls(frame.before, frame.kind)

C9_Collectives ==
    /\ [](Matched /\ ReturnNeedsAll)
    /\ (AllCalled ~> (AllReturned \/ AnyHung))

C9_Witness ==
    /\ self.world_size >= 2 /\ job = "distill" /\ AllReturned
    /\ \A w \in Workers : Len(coll[w]) = 4

=============================================================================
